---- MODULE Spec2Model ----
(***************************************************************************)
(* State-machine model of src/Preprocessing/preprocess-master.py: the     *)
(* batch driver main(), preprocess_file(), clean_and_mask() and           *)
(* impute_data().                                                          *)
(*                                                                         *)
(* Cells.  A pandas cell is the empty tuple (NaN / NaT) or a 1-tuple <<x>>.*)
(* Covariate values are exact rationals stored as integers in units of    *)
(* 1/Scale, so that the divisions of linear interpolation and of the      *)
(* midpoint median are exact (floating-point rounding is not modelled).   *)
(* A CSV cell on disk is a record [kind, v]: kind "num" (text that parses *)
(* as a number or a date, v its value), "text" (unparseable text) or      *)
(* "empty".                                                                *)
(***************************************************************************)
EXTENDS Integers, Sequences, FiniteSets, TLC

\* ---------------------------------------------------------------- bounds
\* Largest number of rows of an input table.
MaxRows == 4
\* Largest number of input files of a batch run.
MaxFiles == 2

\* ------------------------------------------------------ program constants
IMPUTE_COLUMNS == <<"lst_celsius", "ndvi", "ndwi", "radar_vh", "rainfall_mm">>
MIN_VALID_LST == 10
MAX_VALID_LST == 60
GEE_UNMASK_VALUE == -999

ImputeSet == {IMPUTE_COLUMNS[i] : i \in 1..Len(IMPUTE_COLUMNS)}

\* ------------------------------------------------------------- arithmetic
RECURSIVE Factorial(_)
Factorial(n) == IF n <= 1 THEN 1 ELSE n * Factorial(n - 1)

\* Denominator of the fixed-point values: a position gap of Stage 1 is at
\* most MaxRows - 1, and Stage 2 and Stage 3 each halve once.
Scale == 4 * Factorial(MaxRows - 1)

NaN == << >>
IsNa(c) == c = NaN
Val(c) == c[1]
Num(x) == <<x>>

SetMin(S) == CHOOSE x \in S : \A y \in S : x <= y
SetMax(S) == CHOOSE x \in S : \A y \in S : x >= y

\* The sequence f with its elements computed once (TLC keeps a function
\* written as [i \in S |-> e] unevaluated, and evaluates e at every use).
Tuple(f) == f \o << >>

\* Number of missing cells of a column: Series.isna().sum().
IsnaSum(xs) == Cardinality({i \in 1..Len(xs) : IsNa(xs[i])})

\* The column `col` of a table's rows, as a sequence.
Column(rows, col) == Tuple([i \in 1..Len(rows) |-> rows[i][col]])

\* rows with column `col` replaced by the sequence xs: df[col] = xs.
SetColumn(rows, col, xs) ==
    Tuple([i \in 1..Len(rows) |-> [rows[i] EXCEPT ![col] = xs[i]]])

\* ----------------------------------------------------------- CSV parsing
\* pd.to_numeric(errors="coerce") of one cell: text that is not a number,
\* and an empty cell, become NaN.
ToNumeric(raw) == IF raw.kind = "num" THEN Num(raw.v) ELSE NaN

\* pd.to_datetime(errors="coerce") of one cell: an unparseable date is NaT.
ToDatetime(raw) == IF raw.kind = "num" THEN Num(raw.v) ELSE NaN

\* DataFrame.to_csv of one cell: a missing value is written as an empty cell.
ToCsvCell(c) == IF IsNa(c) THEN [kind |-> "empty", v |-> 0]
                ELSE [kind |-> "num", v |-> Val(c)]

\* pd.read_csv + _normalize_columns + the date standardisation of
\* preprocess_file: the key columns are parsed, the covariate columns keep
\* their text until clean_and_mask coerces them.
ParseRow(r) ==
    [c \in DOMAIN r |->
        IF c = "date" THEN ToDatetime(r[c])
        ELSE IF c \in {"grid_id", "month"} THEN ToNumeric(r[c])
        ELSE r[c]]

ReadTable(file) ==
    [columns |-> file.columns,
     rows |-> [i \in 1..Len(file.rows) |-> ParseRow(file.rows[i])]]

\* DataFrame.to_csv(index=False) of a processed table.
ToCsv(df) ==
    [readable |-> TRUE,
     columns |-> df.columns,
     rows |-> [i \in 1..Len(df.rows) |->
                 [c \in DOMAIN df.rows[i] |-> ToCsvCell(df.rows[i][c])]]]

\* --------------------------------------------------------- clean_and_mask
\* The "invalid" predicate of one coerced cell (comparisons with NaN are
\* False).
InvalidNoUpperBound(col, c) ==
    /\ ~IsNa(c)
    /\ IF col = "lst_celsius"
       THEN \/ Val(c) = GEE_UNMASK_VALUE * Scale
            \/ Val(c) < MIN_VALID_LST * Scale
       ELSE Val(c) = GEE_UNMASK_VALUE * Scale

Invalid(col, c) ==
    /\ ~IsNa(c)
    /\ IF col = "lst_celsius"
       THEN \/ Val(c) = GEE_UNMASK_VALUE * Scale
            \/ Val(c) < MIN_VALID_LST * Scale
            \/ Val(c) > MAX_VALID_LST * Scale
       ELSE Val(c) = GEE_UNMASK_VALUE * Scale

\* series.mask(invalid) of one cell of column col.
MaskCell(col, raw) ==
    LET c == ToNumeric(raw) IN IF Invalid(col, c) THEN NaN ELSE c

\* clean_and_mask: the table after the in-place masking of every present
\* covariate, and mask_stats.
CleanAndMask(df) ==
    LET present == ImputeSet \cap df.columns
    IN [df |-> [df EXCEPT !.rows =
                   [i \in 1..Len(df.rows) |->
                      [c \in DOMAIN df.rows[i] |->
                         IF c \in present THEN MaskCell(c, df.rows[i][c])
                         ELSE df.rows[i][c]]]],
        mask_stats |->
            [c \in present |->
                Cardinality({i \in 1..Len(df.rows) :
                               Invalid(c, ToNumeric(df.rows[i][c]))})]]

\* ------------------------------------------------------------ sort_values
\* Order of one sort key, missing keys last.
KeyLt(a, b) == ~IsNa(a) /\ (IsNa(b) \/ Val(a) < Val(b))

\* r1 sorts strictly before r2 under sort_values(['grid_id', 'date']).
RowLt(r1, r2) ==
    \/ KeyLt(r1.grid_id, r2.grid_id)
    \/ r1.grid_id = r2.grid_id /\ KeyLt(r1.date, r2.date)

\* Stable insertion of row r into the sorted sequence s.
RECURSIVE InsertRow(_, _)
InsertRow(s, r) ==
    IF s = << >> THEN <<r>>
    ELSE IF RowLt(r, s[Len(s)]) THEN Append(InsertRow(SubSeq(s, 1, Len(s) - 1), r), s[Len(s)])
    ELSE Append(s, r)

RECURSIVE SortPrefix(_, _)
SortPrefix(rows, n) ==
    IF n = 0 THEN << >> ELSE InsertRow(SortPrefix(rows, n - 1), rows[n])

\* df.sort_values(['grid_id', 'date']): stable, rows with a missing key last.
SortValues(rows) == SortPrefix(rows, Len(rows))

\* ---------------------------------------------------------------- Stage 1
\* Series.interpolate(method='linear', limit_direction='both') of one
\* group: 'linear' treats the values as equally spaced (it ignores the
\* index); outside the known values the nearest known value is held.
Interpolate(xs) ==
    LET known == {q \in 1..Len(xs) : ~IsNa(xs[q])}
    IN [p \in 1..Len(xs) |->
          IF ~IsNa(xs[p]) \/ known = {} THEN xs[p]
          ELSE LET before == {q \in known : q < p}
                   after == {q \in known : q > p}
               IN IF before = {} THEN xs[SetMin(after)]
                  ELSE IF after = {} THEN xs[SetMax(before)]
                  ELSE LET lo == SetMax(before)
                           hi == SetMin(after)
                       IN Num(Val(xs[lo])
                              + ((Val(xs[hi]) - Val(xs[lo])) * (p - lo)) \div (hi - lo))]

\* The row positions of the group of row i under groupby('grid_id'), in
\* table order.
RECURSIVE IndexSeq(_, _)
IndexSeq(S, n) ==
    IF n = 0 THEN << >>
    ELSE IF n \in S THEN Append(IndexSeq(S, n - 1), n) ELSE IndexSeq(S, n - 1)

GroupOf(rows, key, i) ==
    IndexSeq({j \in 1..Len(rows) : rows[j][key] = rows[i][key]}, Len(rows))

\* df.groupby('grid_id')[col].transform(interpolate): groupby drops the
\* rows whose key is missing, and transform returns NaN for them.
Stage1(rows, col) ==
    Tuple([i \in 1..Len(rows) |->
        IF IsNa(rows[i].grid_id) THEN NaN
        ELSE LET g == GroupOf(rows, "grid_id", i)
                 xs == Tuple([k \in 1..Len(g) |-> rows[g[k]][col]])
                 k == CHOOSE k \in 1..Len(g) : g[k] = i
             IN Interpolate(xs)[k]])

\* ----------------------------------------------------------------- median
\* Ascending insertion sort of a sequence of integers.
RECURSIVE InsertInt(_, _)
InsertInt(s, x) ==
    IF s = << >> THEN <<x>>
    ELSE IF x < s[Len(s)] THEN Append(InsertInt(SubSeq(s, 1, Len(s) - 1), x), s[Len(s)])
    ELSE Append(s, x)

RECURSIVE SortInts(_, _)
SortInts(xs, n) == IF n = 0 THEN << >> ELSE InsertInt(SortInts(xs, n - 1), xs[n])

\* The known values of the cells of xs at the positions in S, in order.
KnownValues(xs, S) ==
    LET idx == IndexSeq({i \in S : ~IsNa(xs[i])}, Len(xs))
    IN Tuple([k \in 1..Len(idx) |-> Val(xs[idx[k]])])

MedianLowerMiddle(vals) ==
    LET s == SortInts(vals, Len(vals))
        n == Len(s)
    IN IF n = 0 THEN NaN ELSE Num(s[(n + 1) \div 2])

MedianZeroWhenEmpty(vals) ==
    LET s == SortInts(vals, Len(vals))
        n == Len(s)
    IN IF n = 0 THEN Num(0)
       ELSE IF n % 2 = 1 THEN Num(s[(n + 1) \div 2])
       ELSE Num((s[n \div 2] + s[n \div 2 + 1]) \div 2)

\* Series.median() of the known values: NaN when there is none, the middle
\* value for an odd count, the mean of the two middle values for an even
\* count.
Median(vals) ==
    LET s == SortInts(vals, Len(vals))
        n == Len(s)
    IN IF n = 0 THEN NaN
       ELSE IF n % 2 = 1 THEN Num(s[(n + 1) \div 2])
       ELSE Num((s[n \div 2] + s[n \div 2 + 1]) \div 2)

\* Series.fillna(other): a missing cell takes the cell of `fill` at its row.
FillNa(xs, fill) ==
    Tuple([i \in 1..Len(xs) |-> IF IsNa(xs[i]) THEN fill[i] ELSE xs[i]])

\* ---------------------------------------------------------------- Stage 2
\* df.groupby('month')[col].transform('median'): per row, the median of the
\* column over the rows of the same month; NaN for a row with no month.
SeasonalMedians(rows, col) ==
    LET xs == Column(rows, col)
    IN Tuple([i \in 1..Len(rows) |->
          IF IsNa(rows[i].month) THEN NaN
          ELSE Median(KnownValues(xs, {j \in 1..Len(rows) : rows[j].month = rows[i].month}))])

Stage2(rows, col) == FillNa(Column(rows, col), SeasonalMedians(rows, col))

\* ---------------------------------------------------------------- Stage 3
Stage3Omitted(rows, col) == Column(rows, col)

\* df[col].fillna(df[col].median()).
Stage3(rows, col) ==
    LET xs == Column(rows, col)
        m == Median(KnownValues(xs, 1..Len(xs)))
    IN FillNa(xs, [i \in 1..Len(xs) |-> m])

\* ------------------------------------------------------------ impute_data
\* One pass of the loop body of impute_data on column col: the three stages
\* in order, each assigned back to df[col], and the imputed count.
ImputeColumn(rows, col) ==
    LET initial_nan == IsnaSum(Column(rows, col))
        xs1 == Stage1(rows, col)
        rows1 == SetColumn(rows, col, xs1)
        xs2 == Stage2(rows1, col)
        rows2 == SetColumn(rows1, col, xs2)
        xs3 == Stage3(rows2, col)
    IN [rows |-> SetColumn(rows2, col, xs3),
        s1 |-> xs1,
        s2 |-> xs2,
        count |-> initial_nan - IsnaSum(xs3)]

\* The loop of impute_data over IMPUTE_COLUMNS[1..k]; absent columns are
\* skipped.  acc holds the table and, per column done, the imputed count
\* and the column as it stood after Stage 1 and after Stage 2.
RECURSIVE ImputeLoop(_, _, _)
ImputeLoop(acc, columns, k) ==
    IF k = 0 THEN acc
    ELSE LET prev == ImputeLoop(acc, columns, k - 1)
             col == IMPUTE_COLUMNS[k]
         IN IF col \notin columns THEN prev
            ELSE LET r == ImputeColumn(prev.rows, col)
                 IN [rows |-> r.rows,
                     counts |-> prev.counts @@ (col :> r.count),
                     s1 |-> prev.s1 @@ (col :> r.s1),
                     s2 |-> prev.s2 @@ (col :> r.s2)]

\* impute_data: sort, then the loop.  `sorted` is the table as sorted,
\* before any stage ran.
ImputeData(df) ==
    LET sorted == SortValues(df.rows)
        empty == [c \in {} |-> 0]
        r == ImputeLoop([rows |-> sorted, counts |-> empty, s1 |-> empty, s2 |-> empty],
                        df.columns, Len(IMPUTE_COLUMNS))
    IN [df |-> [df EXCEPT !.rows = r.rows],
        impute_counts |-> r.counts,
        sorted |-> sorted,
        s1 |-> r.s1,
        s2 |-> r.s2]

\* The report of preprocess_file; df[IMPUTE_COLUMNS] needs every covariate
\* column.
BuildStats(name, table, masked, imputed) ==
    [source |-> name,
     total_rows |-> Len(table.rows),
     outliers_masked |-> masked,
     values_imputed |-> imputed,
     final_null_count |-> [c \in ImputeSet |-> IsnaSum(Column(table.rows, c))]]

\* ------------------------------------------------------------------ main
\* pd.read_csv of a written output followed by to_csv: each cell re-parsed
\* and re-written; a column the file lacks is empty in the master.
MasterRow(r, columns) ==
    [c \in columns |->
        IF c \in DOMAIN r THEN ToCsvCell(ToNumeric(r[c])) ELSE ToCsvCell(NaN)]

RECURSIVE ConcatOutputs(_, _, _)
ConcatOutputs(dir, names, k) ==
    IF k = 0 THEN << >>
    ELSE ConcatOutputs(dir, names, k - 1) \o Val(dir[names[k]]).rows

\* pd.concat of the outputs named by csv_files, as written to the master.
MasterOf(dir, names) ==
    LET columns == UNION {Val(dir[names[k]]).columns : k \in 1..Len(names)}
        rows == ConcatOutputs(dir, names, Len(names))
    IN [columns |-> columns,
        rows |-> [i \in 1..Len(rows) |-> MasterRow(rows[i], columns)]]

\* ----------------------------------------------------------------- inputs
RawNum(x) == [kind |-> "num", v |-> x]
RawText == [kind |-> "text", v |-> 0]
RawEmpty == [kind |-> "empty", v |-> 0]

KeyColumns == {"grid_id", "date", "month"}

\* Dates count months from the start of the series; month is the calendar
\* month of the date.
MonthOf(d) == ((d - 1) % 12) + 1

\* An input row: its key cells and one covariate reading x, which the row
\* carries in each of the five covariate columns.
Row(g, d, m, x) ==
    [c \in KeyColumns \cup ImputeSet |->
        IF c = "grid_id" THEN g
        ELSE IF c = "date" THEN d
        ELSE IF c = "month" THEN m
        ELSE x]

Obs(g, d, x) == Row(RawNum(g), RawNum(d), RawNum(MonthOf(d)), x)

Sentinel == RawNum(GEE_UNMASK_VALUE * Scale)
TooCold == RawNum(5 * Scale)
TooHot == RawNum(70 * Scale)
ValA == RawNum(20 * Scale)
ValB == RawNum(40 * Scale)

\* The rows an input table is made of.  Grid 1 is observed at months 1, 2
\* and 13 (a gap of eleven months) and grid 2 at months 1 and 2, each
\* reading either good or bad in one of the ways the source data is bad;
\* three more rows lack their grid identifier, date or month.  A reading
\* that is too cold or too hot for a temperature is a good reading of the
\* other covariates, so the columns of a table differ in what they miss.
\* The order of this list is the order of the rows in an input file; it is
\* not the order sort_values produces.
RowKinds ==
    << Row(RawNum(2), RawNum(2), RawEmpty, TooHot),
       Obs(1, 13, ValB), Obs(1, 13, TooHot),
       Row(RawEmpty, RawNum(1), RawNum(1), ValA),
       Obs(2, 2, ValB), Obs(2, 2, RawEmpty),
       Row(RawNum(1), RawText, RawNum(1), TooCold),
       Obs(1, 2, ValA), Obs(1, 2, Sentinel),
       Obs(2, 1, ValA), Obs(2, 1, RawText),
       Obs(1, 1, ValA), Obs(1, 1, TooCold) >>

\* The non-decreasing sequences of n indices in lo..hi: input tables are
\* enumerated up to the order of their rows.
RECURSIVE NonDecreasing(_, _, _)
NonDecreasing(n, lo, hi) ==
    IF n = 0 THEN {<< >>}
    ELSE UNION {{<<k>> \o s : s \in NonDecreasing(n - 1, k, hi)} : k \in lo..hi}

\* A readable CSV file with the given columns and rows.
FileOf(columns, rows) ==
    [readable |-> TRUE,
     columns |-> columns,
     rows |-> [i \in 1..Len(rows) |-> [c \in columns |-> rows[i][c]]]]

AllColumns == KeyColumns \cup ImputeSet

\* A file pd.read_csv cannot parse as a table.
Unreadable == [readable |-> FALSE, columns |-> {}, rows |-> << >>]

\* Single-file inputs: every table of 1..MaxRows rows with all columns.
TableFiles ==
    {FileOf(AllColumns, [i \in 1..Len(idx) |-> RowKinds[idx[i]]]) :
        idx \in UNION {NonDecreasing(n, 1, Len(RowKinds)) : n \in 1..MaxRows}}

SmallTableA == <<Obs(1, 1, ValA), Obs(1, 2, TooCold), Obs(1, 13, ValB)>>
SmallTableB == <<Obs(2, 2, ValA), Obs(2, 1, RawEmpty)>>
SmallTableC == <<Row(RawEmpty, RawNum(1), RawNum(1), ValA), Obs(2, 1, Sentinel)>>

\* Single-file inputs in which any subset of the covariate columns is absent.
SchemaFiles ==
    {FileOf(KeyColumns \cup present, rows) :
        present \in SUBSET ImputeSet,
        rows \in {SmallTableA, SmallTableB, SmallTableC}}

\* The files of a batch run of several files.
BatchFiles ==
    {Unreadable,
     FileOf(AllColumns, SmallTableA),
     FileOf(AllColumns, SmallTableB),
     FileOf(AllColumns \ {"ndwi"}, SmallTableA)}

\* A cleaned table left in the output directory by an earlier run.
StaleOutput ==
    [readable |-> TRUE,
     columns |-> AllColumns,
     rows |-> <<[c \in AllColumns |-> RawNum(Scale)]>>]

\* ------------------------------------------------------------------ state
VARIABLES
    data_dir,       \* file name -> input file; names are 1..n, in glob order
    out_dir,        \* file name -> NaN (no such file) or <<written CSV>>
    master,         \* kerala_env_master_imputed.csv: NaN or <<table>>
    summary,        \* imputation_summary.json: NaN or <<all_stats>>
    pc,             \* position in main / preprocess_file
    csv_files,      \* main: the sorted list of input file names
    file_idx,       \* main: index of the loop over csv_files
    all_stats,      \* main: the reports of the files processed
    df,             \* preprocess_file: the table being processed
    mask_stats,     \* preprocess_file: result of clean_and_mask
    impute_stats,   \* preprocess_file: counts returned by impute_data
    stats,          \* preprocess_file: the report
    sorted_masked,  \* history: the table as sorted, before Stage 1
    after1,         \* history: column -> the column after Stage 1
    after2,         \* history: column -> the column after Stage 2
    produced,       \* history: file name -> NaN or <<CSV written in this run>>
    failed          \* history: names of the files whose processing raised

vars == <<data_dir, out_dir, master, summary, pc, csv_files, file_idx, all_stats,
          df, mask_stats, impute_stats, stats, sorted_masked, after1, after2,
          produced, failed>>

NoTable == [columns |-> {}, rows |-> << >>]
NoMap == [c \in {} |-> 0]

\* The locals of preprocess_file before a file is read.
FileLocalsCleared ==
    /\ df' = NoTable
    /\ mask_stats' = NoMap
    /\ impute_stats' = NoMap
    /\ stats' = NoMap
    /\ sorted_masked' = << >>
    /\ after1' = NoMap
    /\ after2' = NoMap

InitWith(files, outputs) ==
    /\ data_dir = files
    /\ out_dir = outputs
    /\ master = NaN
    /\ summary = NaN
    /\ pc = "start"
    /\ csv_files = << >>
    /\ file_idx = 1
    /\ all_stats = << >>
    /\ df = NoTable
    /\ mask_stats = NoMap
    /\ impute_stats = NoMap
    /\ stats = NoMap
    /\ sorted_masked = << >>
    /\ after1 = NoMap
    /\ after2 = NoMap
    /\ produced = [n \in DOMAIN files |-> NaN]
    /\ failed = {}

\* The input directory holds no file, one file (any table, any schema, or
\* an unreadable file) with an empty output directory, or up to MaxFiles
\* files of BatchFiles with an output directory that may hold outputs of an
\* earlier run.
Init ==
    \/ InitWith(<< >>, << >>)
    \/ \E f \in TableFiles \cup SchemaFiles \cup {Unreadable} : InitWith(<<f>>, <<NaN>>)
    \/ \E n \in 2..MaxFiles :
         \E files \in [1..n -> BatchFiles] :
           \E outputs \in [1..n -> {NaN, Num(StaleOutput)}] : InitWith(files, outputs)

\* ---------------------------------------------------------------- actions
CurrentName == csv_files[file_idx]

\* main, lines 120-125: the glob found no file.
MainNoFiles ==
    /\ pc = "start"
    /\ Len(data_dir) = 0
    /\ pc' = "done"
    /\ UNCHANGED <<data_dir, out_dir, master, summary, csv_files, file_idx, all_stats,
                   df, mask_stats, impute_stats, stats, sorted_masked, after1, after2,
                   produced, failed>>

\* main, lines 120-127: the sorted list of input files, and into the loop.
MainStart ==
    /\ pc = "start"
    /\ Len(data_dir) > 0
    /\ csv_files' = [i \in 1..Len(data_dir) |-> i]
    /\ pc' = "loop"
    /\ UNCHANGED <<data_dir, out_dir, master, summary, file_idx, all_stats,
                   df, mask_stats, impute_stats, stats, sorted_masked, after1, after2,
                   produced, failed>>

\* preprocess_file, lines 83-88: the file is read and its dates parsed.
ReadCsv ==
    /\ pc = "loop"
    /\ file_idx <= Len(csv_files)
    /\ data_dir[CurrentName].readable
    /\ df' = ReadTable(data_dir[CurrentName])
    /\ pc' = "mask"
    /\ UNCHANGED <<data_dir, out_dir, master, summary, csv_files, file_idx, all_stats,
                   mask_stats, impute_stats, stats, sorted_masked, after1, after2,
                   produced, failed>>

\* preprocess_file, line 84: pd.read_csv raises on a file that is no table.
ReadCsvRaises ==
    /\ pc = "loop"
    /\ file_idx <= Len(csv_files)
    /\ ~data_dir[CurrentName].readable
    /\ pc' = "except"
    /\ UNCHANGED <<data_dir, out_dir, master, summary, csv_files, file_idx, all_stats,
                   df, mask_stats, impute_stats, stats, sorted_masked, after1, after2,
                   produced, failed>>

\* preprocess_file, line 91: clean_and_mask(df).
CleanAndMaskCall ==
    /\ pc = "mask"
    /\ LET r == CleanAndMask(df)
       IN /\ df' = r.df
          /\ mask_stats' = r.mask_stats
    /\ pc' = "impute"
    /\ UNCHANGED <<data_dir, out_dir, master, summary, csv_files, file_idx, all_stats,
                   impute_stats, stats, sorted_masked, after1, after2, produced, failed>>

\* preprocess_file, line 94: df, impute_stats = impute_data(df).
ImputeDataCall ==
    /\ pc = "impute"
    /\ LET r == ImputeData(df)
       IN /\ df' = r.df
          /\ impute_stats' = r.impute_counts
          /\ sorted_masked' = r.sorted
          /\ after1' = r.s1
          /\ after2' = r.s2
    /\ pc' = "stats"
    /\ UNCHANGED <<data_dir, out_dir, master, summary, csv_files, file_idx, all_stats,
                   mask_stats, stats, produced, failed>>

\* preprocess_file, lines 97-103: the report.
BuildReport ==
    /\ pc = "stats"
    /\ ImputeSet \subseteq df.columns
    /\ stats' = BuildStats(CurrentName, df, mask_stats, impute_stats)
    /\ pc' = "write"
    /\ UNCHANGED <<data_dir, out_dir, master, summary, csv_files, file_idx, all_stats,
                   df, mask_stats, impute_stats, sorted_masked, after1, after2,
                   produced, failed>>

\* preprocess_file, line 102: df[IMPUTE_COLUMNS] raises KeyError when a
\* covariate column is absent.
BuildReportRaises ==
    /\ pc = "stats"
    /\ ~(ImputeSet \subseteq df.columns)
    /\ pc' = "except"
    /\ UNCHANGED <<data_dir, out_dir, master, summary, csv_files, file_idx, all_stats,
                   df, mask_stats, impute_stats, stats, sorted_masked, after1, after2,
                   produced, failed>>

\* preprocess_file, lines 105-112, and main, lines 129-130: the cleaned
\* table is written under the input's name, the report is kept.
WriteOutput ==
    /\ pc = "write"
    /\ out_dir' = [out_dir EXCEPT ![CurrentName] = Num(ToCsv(df))]
    /\ produced' = [produced EXCEPT ![CurrentName] = Num(ToCsv(df))]
    /\ all_stats' = Append(all_stats, stats)
    /\ file_idx' = file_idx + 1
    /\ pc' = "loop"
    /\ FileLocalsCleared
    /\ UNCHANGED <<data_dir, master, summary, csv_files, failed>>

\* main, lines 131-132: the exception of one file is printed, the loop goes on.
HandleError ==
    /\ pc = "except"
    /\ failed' = failed \cup {CurrentName}
    /\ file_idx' = file_idx + 1
    /\ pc' = "loop"
    /\ FileLocalsCleared
    /\ UNCHANGED <<data_dir, out_dir, master, summary, csv_files, all_stats, produced>>

\* main, line 135: no file was processed, nothing is written.
CombineSkipped ==
    /\ pc = "loop"
    /\ file_idx > Len(csv_files)
    /\ all_stats = << >>
    /\ pc' = "done"
    /\ UNCHANGED <<data_dir, out_dir, master, summary, csv_files, file_idx, all_stats,
                   df, mask_stats, impute_stats, stats, sorted_masked, after1, after2,
                   produced, failed>>

\* main, line 136: pd.read_csv raises, outside any try, on an input file
\* that has no file of its name in the output directory.
CombineRaises ==
    /\ pc = "loop"
    /\ file_idx > Len(csv_files)
    /\ all_stats # << >>
    /\ \E k \in 1..Len(csv_files) : IsNa(out_dir[csv_files[k]])
    /\ pc' = "crashed"
    /\ UNCHANGED <<data_dir, out_dir, master, summary, csv_files, file_idx, all_stats,
                   df, mask_stats, impute_stats, stats, sorted_masked, after1, after2,
                   produced, failed>>

\* main, lines 135-144: the master is the concatenation of the files of the
\* output directory named like the input files; the summary is all_stats.
CombineWrite ==
    /\ pc = "loop"
    /\ file_idx > Len(csv_files)
    /\ all_stats # << >>
    /\ \A k \in 1..Len(csv_files) : ~IsNa(out_dir[csv_files[k]])
    /\ master' = Num(MasterOf(out_dir, csv_files))
    /\ summary' = Num(all_stats)
    /\ pc' = "done"
    /\ UNCHANGED <<data_dir, out_dir, csv_files, file_idx, all_stats,
                   df, mask_stats, impute_stats, stats, sorted_masked, after1, after2,
                   produced, failed>>

Next ==
    \/ MainNoFiles
    \/ MainStart
    \/ ReadCsv
    \/ ReadCsvRaises
    \/ CleanAndMaskCall
    \/ ImputeDataCall
    \/ BuildReport
    \/ BuildReportRaises
    \/ WriteOutput
    \/ HandleError
    \/ CombineSkipped
    \/ CombineRaises
    \/ CombineWrite

Spec == Init /\ [][Next]_vars

\* ----------------------------------------------------------------- claims
\* The table has been imputed and its histories are those of this table.
Imputed == pc \in {"stats", "write"}

\* The covariate columns of the table being processed.
Present == ImputeSet \cap df.columns

\* Column c after masking (as sorted), and after Stage 3.
Masked(c) == [i \in 1..Len(sorted_masked) |-> sorted_masked[i][c]]
Final(c) == [i \in 1..Len(df.rows) |-> df.rows[i][c]]

RowIdx == 1..Len(df.rows)

\* v is the k-th smallest of the known values of xs at the positions S.
IsKth(v, k, xs, S) ==
    /\ Cardinality({j \in S : ~IsNa(xs[j]) /\ Val(xs[j]) < v}) < k
    /\ k <= Cardinality({j \in S : ~IsNa(xs[j]) /\ Val(xs[j]) <= v})

\* m is the median of the known values of xs at the positions S: the mean
\* of the two middle values, which are one value when the count is odd.
IsMedianOf(m, xs, S) ==
    LET n == Cardinality({j \in S : ~IsNa(xs[j])})
    IN \E a, b \in {j \in S : ~IsNa(xs[j])} :
          /\ IsKth(Val(xs[a]), (n + 1) \div 2, xs, S)
          /\ IsKth(Val(xs[b]), n \div 2 + 1, xs, S)
          /\ 2 * m = Val(xs[a]) + Val(xs[b])

SameMonth(i) ==
    {j \in RowIdx : ~IsNa(df.rows[i].month) /\ df.rows[j].month = df.rows[i].month}

SameGrid(i) ==
    {j \in RowIdx : ~IsNa(df.rows[i].grid_id) /\ df.rows[j].grid_id = df.rows[i].grid_id}

\* The rows of the outputs written in this run, in the order of csv_files.
RECURSIVE ProducedRows(_)
ProducedRows(k) ==
    IF k = 0 THEN << >>
    ELSE ProducedRows(k - 1)
            \o (IF IsNa(produced[k]) THEN << >> ELSE Val(produced[k]).rows)

\* C1: when a batch run ends in which one file was processed and one
\* failed, every file that did not fail was processed, and the master and
\* the summary are written, the master being the concatenation of exactly
\* the outputs produced in this run.
C1_FailureConfined ==
    (/\ pc \in {"done", "crashed"}
     /\ failed # {}
     /\ \E n \in DOMAIN produced : ~IsNa(produced[n]))
    => /\ pc = "done"
       /\ \A n \in DOMAIN data_dir : n \notin failed => ~IsNa(produced[n])
       /\ ~IsNa(master)
       /\ ~IsNa(summary)
       /\ Val(master).rows = ProducedRows(Len(data_dir))

\* C2: a table that lacks some of the covariate columns is processed
\* without error, and its report has entries for the present covariates only.
C2_AbsentCovariateSkipped ==
    /\ \A n \in failed : ~data_dir[n].readable
    /\ pc = "write" =>
          /\ DOMAIN stats.outliers_masked = Present
          /\ DOMAIN stats.values_imputed = Present
          /\ DOMAIN stats.final_null_count = Present

\* C3: after the three stages a covariate that has a non-missing value
\* anywhere in the table after masking has no missing cell.
C3_Completeness ==
    Imputed =>
        \A c \in Present :
            (\E i \in RowIdx : ~IsNa(Masked(c)[i]))
                => \A i \in RowIdx : ~IsNa(Final(c)[i])

\* C4: per covariate, the cells missing after masking are the reported
\* imputed count plus the reported still-missing count, and the imputed
\* count is not negative.
C4_CountConservation ==
    pc = "write" =>
        \A c \in ImputeSet :
            /\ IsnaSum(Masked(c)) = stats.values_imputed[c] + stats.final_null_count[c]
            /\ stats.values_imputed[c] >= 0

InTemperatureRange(v) ==
    /\ MIN_VALID_LST * Scale <= v
    /\ v <= MAX_VALID_LST * Scale
    /\ v # GEE_UNMASK_VALUE * Scale

\* C5: every temperature of a cleaned table, in memory and as written, is
\* missing or within [10, 60] and not the sentinel.
C5_TemperatureBound ==
    /\ (Imputed /\ "lst_celsius" \in df.columns) =>
          \A i \in RowIdx :
              IsNa(df.rows[i].lst_celsius) \/ InTemperatureRange(Val(df.rows[i].lst_celsius))
    /\ \A n \in DOMAIN produced :
          ~IsNa(produced[n]) =>
              \A i \in 1..Len(Val(produced[n]).rows) :
                  LET cell == Val(produced[n]).rows[i].lst_celsius
                  IN cell.kind = "empty" \/ (cell.kind = "num" /\ InTemperatureRange(cell.v))

\* C5 witness: a table with a masked temperature, a temperature filled by
\* Stage 1 and one filled by a median.
C5_Witness ==
    /\ pc = "write"
    /\ mask_stats.lst_celsius >= 2
    /\ \E i, j \in RowIdx :
          /\ IsNa(Masked("lst_celsius")[i]) /\ ~IsNa(after1.lst_celsius[i])
          /\ IsNa(after1.lst_celsius[j]) /\ ~IsNa(df.rows[j].lst_celsius)

\* C6: Stage 1 fills every missing cell of a grid that has a known value:
\* between two known values with the linear interpolation by date, before
\* the first and after the last known value with the nearest known value;
\* a grid without a known value stays missing.
C6_Stage1ByDate ==
    Imputed =>
        \A c \in Present : \A i \in RowIdx :
            LET known == {j \in SameGrid(i) : ~IsNa(Masked(c)[j])}
                before == {j \in known : j < i}
                after == {j \in known : j > i}
                lo == SetMax(before)
                hi == SetMin(after)
                x == after1[c]
            IN (~IsNa(df.rows[i].grid_id) /\ IsNa(Masked(c)[i])) =>
                  IF known = {} THEN IsNa(x[i])
                  ELSE /\ ~IsNa(x[i])
                       /\ (before = {}) => x[i] = Masked(c)[hi]
                       /\ (after = {}) => x[i] = Masked(c)[lo]
                       /\ (/\ before # {}
                           /\ after # {}
                           /\ ~IsNa(df.rows[i].date)
                           /\ ~IsNa(df.rows[hi].date)
                           /\ Val(df.rows[lo].date) < Val(df.rows[hi].date))
                          => (Val(x[i]) - Val(x[lo]))
                                 * (Val(df.rows[hi].date) - Val(df.rows[lo].date))
                             = (Val(x[hi]) - Val(x[lo]))
                                 * (Val(df.rows[i].date) - Val(df.rows[lo].date))

\* C7: a cell missing after Stage 1 whose month has a known value after
\* Stage 1 is filled by Stage 2 with the midpoint median of all values of
\* the covariate in that month, over the whole table, as they stand after
\* Stage 1.
C7_Stage2SeasonalMedian ==
    Imputed =>
        \A c \in Present : \A i \in RowIdx :
            (/\ IsNa(after1[c][i])
             /\ \E j \in SameMonth(i) : ~IsNa(after1[c][j]))
            => /\ ~IsNa(after2[c][i])
               /\ IsMedianOf(Val(after2[c][i]), after1[c], SameMonth(i))

\* C7 witness: Stage 2 fills a cell of one grid with the median of two
\* different values of another grid, one of them a Stage 1 fill.
C7_Witness ==
    /\ Imputed
    /\ \E c \in Present : \E i, j, k \in RowIdx :
          /\ IsNa(after1[c][i]) /\ ~IsNa(after2[c][i])
          /\ SameMonth(i) \cap {n \in RowIdx : ~IsNa(after1[c][n])} = {j, k}
          /\ j \notin SameGrid(i)
          /\ IsNa(Masked(c)[j])
          /\ after1[c][j] # after1[c][k]

\* C8: a covariate missing in every row after masking is missing in every
\* row after imputation, with an imputed count of 0 and a still-missing
\* count of the number of rows; every other covariate with a known value in
\* a row of a grid is imputed in full.
C8_AllMissingCovariate ==
    pc = "write" =>
        \A c \in ImputeSet :
            (\A i \in RowIdx : IsNa(Masked(c)[i]))
            => /\ \A i \in RowIdx : IsNa(df.rows[i][c])
               /\ stats.values_imputed[c] = 0
               /\ stats.final_null_count[c] = stats.total_rows
               /\ \A d \in ImputeSet \ {c} :
                     (\E i \in RowIdx :
                         ~IsNa(Masked(d)[i]) /\ ~IsNa(df.rows[i].grid_id))
                     => \A i \in RowIdx : ~IsNa(df.rows[i][d])

\* C8 witness: the temperature is missing in all of three or more rows and
\* another covariate has a cell that was imputed.
C8_Witness ==
    /\ pc = "write"
    /\ Len(df.rows) >= 3
    /\ \A i \in RowIdx : IsNa(Masked("lst_celsius")[i])
    /\ \E i \in RowIdx : IsNa(Masked("ndvi")[i]) /\ ~IsNa(df.rows[i].ndvi)

\* C9: a cell that is known after masking keeps its value through Stage 1,
\* Stage 2 and Stage 3, and a cell a stage filled is not changed by a later
\* stage.
C9_OnlyFills ==
    Imputed =>
        \A c \in Present : \A i \in RowIdx :
            /\ ~IsNa(Masked(c)[i]) => after1[c][i] = Masked(c)[i]
            /\ ~IsNa(after1[c][i]) => after2[c][i] = after1[c][i]
            /\ ~IsNa(after2[c][i]) => df.rows[i][c] = after2[c][i]

\* C10: a cell missing after Stage 2 (its month is missing, or no value of
\* its month is known after Stage 1) is filled by Stage 3 with the midpoint
\* median of all values of the covariate as they stand after Stage 2,
\* whenever one is known.
C10_Stage3GlobalMedian ==
    Imputed =>
        \A c \in Present : \A i \in RowIdx :
            IsNa(after2[c][i])
            => /\ \A j \in SameMonth(i) : IsNa(after1[c][j])
               /\ (\E j \in RowIdx : ~IsNa(after2[c][j]))
                  => /\ ~IsNa(df.rows[i][c])
                     /\ IsMedianOf(Val(df.rows[i][c]), after2[c], RowIdx)

\* C10 witness: Stage 3 fills a cell with a median over known values, a
\* Stage 1 fill and a Stage 2 fill.
C10_Witness ==
    /\ Imputed
    /\ \E c \in Present : \E i, j, k \in RowIdx :
          /\ IsNa(after2[c][i]) /\ ~IsNa(df.rows[i][c])
          /\ IsNa(Masked(c)[j]) /\ ~IsNa(after1[c][j])
          /\ IsNa(after1[c][k]) /\ ~IsNa(after2[c][k])
          /\ \E n \in RowIdx : ~IsNa(Masked(c)[n]) /\ after2[c][n] # after2[c][k]

====
